---- MODULE Spec2Model ----
(***************************************************************************)
(* Model of the clocked two-player chess match of grand-master-duel:       *)
(* the setup screen (pages/Index.tsx), the match screen (pages/Game.tsx)   *)
(* and the click-to-move board (components/ChessBoard.tsx).                *)
(*                                                                         *)
(* The rules engine (chess.js) is an external library.  It is modelled by  *)
(* a small rule-based game on a board of one rank: kings step one square,  *)
(* knights jump two, rooks and queens slide, pawns step one square forward *)
(* onto an empty square and promote on the far square.  Check, checkmate,  *)
(* stalemate, insufficient material, repetition and the halfmove clock are *)
(* derived from these rules the way chess.js derives them from the rules   *)
(* of chess.                                                               *)
(***************************************************************************)
EXTENDS Integers, Sequences, FiniteSets, TLC

VARIABLES
    screen,         \* the mounted route: "setup" (Index) or "game" (Game)
    selectedTimer,  \* Index: the time control chosen, in minutes
    stored,         \* sessionStorage['chessGameState'], or Null
    game,           \* Game: the chess.js object held in the `game` state
    gameState,      \* Game: {playerA, playerB, currentTurn}, or Null
    gameOver,       \* Game: {type, winner, message}, or Null
    isFlipped,      \* Game: board orientation
    interval,       \* Game: the time left before the setInterval of the timer effect
                    \* runs its callback, in quanta of a second; 0 when none is scheduled
    selectedSquare, \* ChessBoard: the selected square, or NoSquare
    validMoves,     \* ChessBoard: the destinations of the selection (an array)
    toast,          \* the advisory signalled by the last handler, or "none"
    validator       \* chess-validator: the call being followed, or NoCall

vars == <<screen, selectedTimer, stored, game, gameState, gameOver, isFlipped,
          interval, selectedSquare, validMoves, toast, validator>>

(***************************************************************************)
(* Bounds.  The two time controls are 5 and 10 minutes, stored as          *)
(* minutes * 60 seconds; the model keeps the two choices and scales the    *)
(* number of seconds each one stands for.                                  *)
(***************************************************************************)
ShortClock == 2
LongClock == 3

\* The halfmove clock at which chess.js calls a position drawn (100 in the
\* library) is scaled the same way.
FiftyMoveLimit == 4

\* The halfmove clock at which a match played long enough for a position to
\* occur three times is called drawn: eight quiet moves bring a position back
\* twice.
RepetitionHorizon == 9

\* The longest time, in seconds, between two runs of the interval callback.
MaxElapsed == 2

\* The quanta one second is cut into where the time between a state change
\* and the next run of the interval callback is followed.
TickQuanta == 2

Null == [null |-> TRUE]

\* no function of chess-validator has been called (the screens never call one)
NoCall == [fn |-> "none"]

NoSquare == 0

(***************************************************************************)
(* The rules oracle.                                                       *)
(***************************************************************************)
Piece(c, t) == [color |-> c, type |-> t]
Empty == Piece("none", "none")

StartBoard ==
    << Piece("b", "k"), Piece("b", "r"), Piece("w", "r"), Piece("b", "n"),
       Piece("w", "k"), Piece("w", "p"), Empty >>

Squares == DOMAIN StartBoard
SquareSeq == [i \in Squares |-> i]

Opp(c) == IF c = "w" THEN "b" ELSE "w"
Forward(c) == IF c = "w" THEN 1 ELSE -1
LastRank(c) == IF c = "w" THEN Len(StartBoard) ELSE 1
Dist(i, j) == IF i < j THEN j - i ELSE i - j

ClearBetween(board, i, j) ==
    \A k \in Squares : ((i < k /\ k < j) \/ (j < k /\ k < i)) => board[k] = Empty

\* the piece standing on square i attacks square sq
Attacks(board, i, sq) ==
    CASE board[i].type = "k" -> Dist(i, sq) = 1
      [] board[i].type = "n" -> Dist(i, sq) = 2
      [] board[i].type \in {"r", "q"} -> i # sq /\ ClearBetween(board, i, sq)
      [] OTHER -> FALSE

KingSquare(board, c) == CHOOSE i \in Squares : board[i] = Piece(c, "k")

InCheck(board, c) ==
    \E i \in Squares :
        board[i].color = Opp(c) /\ Attacks(board, i, KingSquare(board, c))

\* the piece on sq may step to t, its own king's safety left aside
PseudoReach(board, sq, t) ==
    CASE board[sq].type = "k" ->
            Dist(sq, t) = 1 /\ board[t].color # board[sq].color
      [] board[sq].type = "n" ->
            Dist(sq, t) = 2 /\ board[t].color # board[sq].color
      [] board[sq].type \in {"r", "q"} ->
            t # sq /\ ClearBetween(board, sq, t) /\ board[t].color # board[sq].color
      [] board[sq].type = "p" ->
            t = sq + Forward(board[sq].color) /\ board[t] = Empty
      [] OTHER -> FALSE

Mv(f, t, p) == [from |-> f, to |-> t, promotion |-> p]

\* a pawn reaching its last rank yields one move per promotion piece
RECURSIVE MovesToTargets(_, _, _)
MovesToTargets(board, sq, ts) ==
    IF ts = <<>> THEN <<>>
    ELSE LET t == Head(ts)
             promo == board[sq].type = "p" /\ t = LastRank(board[sq].color)
         IN  (IF promo
                THEN << Mv(sq, t, "q"), Mv(sq, t, "r"), Mv(sq, t, "b"), Mv(sq, t, "n") >>
                ELSE << Mv(sq, t, "none") >>)
             \o MovesToTargets(board, sq, Tail(ts))

ApplyMove(board, m) ==
    [board EXCEPT ![m.from] = Empty,
                  ![m.to] = IF m.promotion = "none" THEN board[m.from]
                            ELSE Piece(board[m.from].color, m.promotion)]

\* chess.js game.get(square)
get(g, sq) == g.board[sq]

\* chess.js game.moves({square, verbose: true}): the legal moves of the side
\* to move from one square, as an array
moves(g, sq) ==
    IF g.board[sq].color # g.turn THEN <<>>
    ELSE SelectSeq(
            MovesToTargets(g.board, sq,
                SelectSeq(SquareSeq, LAMBDA t : PseudoReach(g.board, sq, t))),
            LAMBDA m : ~InCheck(ApplyMove(g.board, m), g.turn))

HasLegalMove(g) == \E sq \in Squares : moves(g, sq) # <<>>

\* game.fen(): the position, the side to move and the halfmove clock
fen(g) == [board |-> g.board, turn |-> g.turn, halfMoves |-> g.halfMoves]

\* what two positions must share to count as a repetition
PositionKey(g) == [board |-> g.board, turn |-> g.turn]

\* new Chess(fen): a fresh object that knows the position and its halfmove
\* clock, and nothing of the moves that led to it
Chess(f) ==
    [board |-> f.board, turn |-> f.turn, halfMoves |-> f.halfMoves,
     history |-> << PositionKey(f) >>]

NewChess == Chess([board |-> StartBoard, turn |-> "w", halfMoves |-> 0])

\* the index in moves(g, from) of the move game.move({from, to, promotion: 'q'})
\* makes, or 0 when there is none and game.move throws
MoveIndex(ms, to) ==
    LET hits == {i \in DOMAIN ms : ms[i].to = to /\ ms[i].promotion \in {"none", "q"}}
    IN  IF hits = {} THEN 0 ELSE CHOOSE i \in hits : TRUE

MoveFound(g, from, to) == MoveIndex(moves(g, from), to) # 0

\* the halfmove clock after a move: a capture or a pawn move resets it, any
\* other move advances it; it is counted up to the limit that isDraw reads
HalfMovesAfter(g, from, to) ==
    IF g.board[to] # Empty \/ g.board[from].type = "p" THEN 0
    ELSE IF g.halfMoves < FiftyMoveLimit THEN g.halfMoves + 1
    ELSE FiftyMoveLimit

\* the object after game.move has mutated it (defined when MoveFound)
move(g, from, to) ==
    LET ms == moves(g, from)
        b == ApplyMove(g.board, ms[MoveIndex(ms, to)])
        f == [board |-> b, turn |-> Opp(g.turn)]
    IN  [board |-> b, turn |-> Opp(g.turn),
         halfMoves |-> HalfMovesAfter(g, from, to),
         history |-> Append(g.history, f)]

isCheck(g) == InCheck(g.board, g.turn)
isCheckmate(g) == isCheck(g) /\ ~HasLegalMove(g)
isStalemate(g) == ~isCheck(g) /\ ~HasLegalMove(g)
isInsufficientMaterial(g) ==
    LET men == {i \in Squares : g.board[i] # Empty}
    IN  \/ Cardinality(men) = 2
        \/ /\ Cardinality(men) = 3
           /\ \E i \in men : g.board[i].type \in {"b", "n"}
isThreefoldRepetition(g) ==
    Cardinality({i \in DOMAIN g.history : g.history[i] = PositionKey(g)}) >= 3
isDrawByFiftyMoves(g) == g.halfMoves >= FiftyMoveLimit
isDraw(g) ==
    \/ isDrawByFiftyMoves(g)
    \/ isStalemate(g)
    \/ isInsufficientMaterial(g)
    \/ isThreefoldRepetition(g)


(***************************************************************************)
(* Text.  A name is a sequence of characters; a message is a template      *)
(* with the names substituted into it.                                     *)
(***************************************************************************)
RECURSIVE trimStart(_)
trimStart(s) == IF s # <<>> /\ Head(s) = " " THEN trimStart(Tail(s)) ELSE s

RECURSIVE trimEnd(_)
trimEnd(s) ==
    IF s # <<>> /\ s[Len(s)] = " " THEN trimEnd(SubSeq(s, 1, Len(s) - 1)) ELSE s

\* String.prototype.trim
trim(s) == trimEnd(trimStart(s))

Msg(template, args) == [template |-> template, args |-> args]

\* the optional winner of a GameOver
Some(name) == << name >>
Undefined == << >>

(***************************************************************************)
(* Inputs.                                                                 *)
(***************************************************************************)
NameInputsA == { << >>, << "a", " " >> }
NameInputsB == { << " " >>, << " ", "b" >> }
TimerOptions == {5, 10}
DefaultTimer == 10
SecondsPerMinute == 60

\* the names typed when the setup screen is checked on its own
SetupNamesA == { << >>, << "a", " " >>, << " ", "c" >>, << "e" >> }
SetupNamesB == { << " " >>, << " ", "b" >>, << "d", " " >>, << "e" >> }

(***************************************************************************)
(* The state of a Game component that has just been mounted, and of the    *)
(* ChessBoard inside it.                                                   *)
(***************************************************************************)
FreshGame ==
    /\ game' = NewChess
    /\ gameState' = Null
    /\ gameOver' = Null
    /\ isFlipped' = FALSE
    /\ interval' = 0
    /\ selectedSquare' = NoSquare
    /\ validMoves' = << >>

Init ==
    /\ screen = "setup"
    /\ selectedTimer = DefaultTimer
    /\ stored = Null
    /\ game = NewChess
    /\ gameState = Null
    /\ gameOver = Null
    /\ isFlipped = FALSE
    /\ interval = 0
    /\ selectedSquare = NoSquare
    /\ validMoves = << >>
    /\ toast = "none"
    /\ validator = NoCall

(***************************************************************************)
(* Setup screen (Index).                                                   *)
(***************************************************************************)
\* the seconds a time control of `minutes` stands for (minutes * 60, scaled)
ClockSeconds(minutes) == IF minutes = 5 THEN ShortClock ELSE LongClock

\* mutant: both players are handed the same colour
SetupRecordSameColor(nameA, nameB, minutes, isPlayerAWhite) ==
    [ playerA |-> [ name |-> trim(nameA),
                    color |-> IF isPlayerAWhite THEN "white" ELSE "black",
                    timeLeft |-> ClockSeconds(minutes) ],
      playerB |-> [ name |-> trim(nameB),
                    color |-> IF isPlayerAWhite THEN "white" ELSE "black",
                    timeLeft |-> ClockSeconds(minutes) ],
      currentTurn |-> "white" ]

\* mutant: the minutes are stored as they are
TimerSecondsUnconverted(minutes) == minutes

\* selectedTimer * 60, unscaled
TimerSeconds(minutes) == minutes * SecondsPerMinute

\* mutant: the record is written with black to move
SetupRecordAtBlackFirst(nameA, nameB, timeLeft, isPlayerAWhite) ==
    [ playerA |-> [ name |-> trim(nameA),
                    color |-> IF isPlayerAWhite THEN "white" ELSE "black",
                    timeLeft |-> timeLeft ],
      playerB |-> [ name |-> trim(nameB),
                    color |-> IF isPlayerAWhite THEN "black" ELSE "white",
                    timeLeft |-> timeLeft ],
      currentTurn |-> "black" ]

\* the record handleStartGame builds, for a time control of timeLeft seconds
SetupRecordAt(nameA, nameB, timeLeft, isPlayerAWhite) ==
    [ playerA |-> [ name |-> trim(nameA),
                    color |-> IF isPlayerAWhite THEN "white" ELSE "black",
                    timeLeft |-> timeLeft ],
      playerB |-> [ name |-> trim(nameB),
                    color |-> IF isPlayerAWhite THEN "black" ELSE "white",
                    timeLeft |-> timeLeft ],
      currentTurn |-> "white" ]

SetupRecord(nameA, nameB, minutes, isPlayerAWhite) ==
    SetupRecordAt(nameA, nameB, ClockSeconds(minutes), isPlayerAWhite)

SetupRecordInSeconds(nameA, nameB, minutes, isPlayerAWhite) ==
    SetupRecordAt(nameA, nameB, TimerSeconds(minutes), isPlayerAWhite)

SelectTimer(minutes) ==
    /\ screen = "setup"
    /\ selectedTimer' = minutes
    /\ toast' = "none"
    /\ UNCHANGED <<screen, stored, game, gameState, gameOver, isFlipped,
                   interval, selectedSquare, validMoves>>
    /\ UNCHANGED validator

\* mutant: the names are not looked at before the record is written
handleStartGameStoringUnguarded(record, nameA, nameB) ==
    /\ screen = "setup"
    /\ toast' = "none"
    /\ stored' = record
    /\ screen' = "game"
    /\ selectedTimer' = DefaultTimer
    /\ UNCHANGED <<game, gameState, gameOver, isFlipped, interval,
                   selectedSquare, validMoves>>
    /\ UNCHANGED validator

\* handleStartGame, given the record it builds from the names and the timer
handleStartGameStoring(record, nameA, nameB) ==
    /\ screen = "setup"
    /\ toast' = "none"
    /\ IF trim(nameA) = << >> \/ trim(nameB) = << >>
         THEN UNCHANGED <<screen, selectedTimer, stored>>
         ELSE /\ stored' = record
              /\ screen' = "game"
              /\ selectedTimer' = DefaultTimer
    /\ UNCHANGED <<game, gameState, gameOver, isFlipped, interval,
                   selectedSquare, validMoves>>
    /\ UNCHANGED validator

\* with the clocks scaled
handleStartGame(nameA, nameB, isPlayerAWhite) ==
    handleStartGameStoring(SetupRecord(nameA, nameB, selectedTimer, isPlayerAWhite),
                           nameA, nameB)

\* with the clocks in seconds
handleStartGameInSeconds(nameA, nameB, isPlayerAWhite) ==
    handleStartGameStoring(SetupRecordInSeconds(nameA, nameB, selectedTimer, isPlayerAWhite),
                           nameA, nameB)

\* the match route entered by its address rather than through setup
OpenGameRoute ==
    /\ screen = "setup"
    /\ screen' = "game"
    /\ selectedTimer' = DefaultTimer
    /\ toast' = "none"
    /\ UNCHANGED <<stored, game, gameState, gameOver, isFlipped, interval,
                   selectedSquare, validMoves>>
    /\ UNCHANGED validator

(***************************************************************************)
(* Match screen (Game).                                                    *)
(***************************************************************************)
\* mutant: the timer effect does not look at gameOver
TimerEffectIgnoresGameOver(gs, go) == IF gs # Null THEN TickQuanta ELSE 0

\* the timer effect, run after a render in which gameState or gameOver has
\* changed: the interval of the render before is cleared and, with these
\* values, a new one is scheduled a full second ahead
TimerEffect(gs, go) == IF gs # Null /\ go = Null THEN TickQuanta ELSE 0

\* Texts under the storage key that the setup screen did not write: one that
\* JSON.parse rejects, one that parses to an object without players, and one
\* that parses to a record of the right shape with values no setup gives
\* (no names, one colour twice, no time).
Unparseable == [corrupt |-> "unparseable"]
NoPlayers == [corrupt |-> "no players"]
IllFormed ==
    [ playerA |-> [ name |-> << >>, color |-> "white", timeLeft |-> 0 ],
      playerB |-> [ name |-> << >>, color |-> "white", timeLeft |-> 0 ],
      currentTurn |-> "white" ]
ForeignRecords == { Unparseable, NoPlayers, IllFormed }

\* something other than the setup screen writes the storage key
WriteForeignRecord(record) ==
    /\ screen \in {"setup", "game"}
    /\ stored' = record
    /\ UNCHANGED <<screen, selectedTimer, game, gameState, gameOver, isFlipped,
                   interval, selectedSquare, validMoves, toast>>
    /\ UNCHANGED validator

\* JSON.parse(storedState) or state.playerA.color throws; nothing catches it
LoadThrows(record) == record \in { Unparseable, NoPlayers }

\* the load effect of a mounted Game
LoadEffect ==
    /\ screen = "game"
    /\ gameState = Null
    /\ toast' = "none"
    /\ IF stored = Null
         THEN /\ screen' = "setup"
              /\ UNCHANGED <<gameState, isFlipped, interval>>
       ELSE IF LoadThrows(stored)
         THEN /\ screen' = "crashed"
              /\ UNCHANGED <<gameState, isFlipped, interval>>
         ELSE /\ gameState' = stored
              /\ isFlipped' = (stored.playerA.color = "black")
              /\ interval' = TimerEffect(gameState', gameOver)
              /\ UNCHANGED screen
    /\ UNCHANGED <<selectedTimer, stored, game, gameOver, selectedSquare, validMoves>>
    /\ UNCHANGED validator

Mounted == screen = "game" /\ gameState # Null
\* mutant: the clock debits the player who is not to move
TickPlayerWaiting(prev) ==
    IF prev.currentTurn = prev.playerA.color THEN "playerB" ELSE "playerA"

\* the key of the player the clock debits
TickPlayer(prev) ==
    IF prev.currentTurn = prev.playerA.color THEN "playerA" ELSE "playerB"
\* mutant: the clock is allowed to run one second past zero
TimedOutLate(newTimeLeft) == newTimeLeft < -1

\* mutant: the timeout is raised only when the new time would be negative
TimedOutNegative(newTimeLeft) == newTimeLeft < 0


TimedOut(newTimeLeft) == newTimeLeft <= 0
\* mutant: the timeout names the player who ran out of time as the winner
TimeoutOverLoserWins(prev) ==
    LET winner == prev[IF prev.currentTurn = prev.playerA.color
                         THEN "playerA" ELSE "playerB"].name
    IN  [ type |-> "timeout", winner |-> Some(winner),
          message |-> Msg("{0} wins by timeout!", << winner >>) ]


TimeoutOver(prev) ==
    LET winner == IF TickPlayer(prev) = "playerA"
                    THEN prev.playerB.name ELSE prev.playerA.name
    IN  [ type |-> "timeout", winner |-> Some(winner),
          message |-> Msg("{0} wins by timeout!", << winner >>) ]

\* mutant: the updater hands back the state it was given
TickStateFrozen(prev) == prev

\* the updater the interval hands to setGameState
TickState(prev) ==
    LET newTimeLeft == prev[TickPlayer(prev)].timeLeft - 1
    IN  IF TimedOut(newTimeLeft) THEN prev
        ELSE [prev EXCEPT ![TickPlayer(prev)].timeLeft = newTimeLeft]

Tick ==
    /\ interval > 0
    /\ gameState' = TickState(gameState)
    /\ gameOver' = IF TimedOut(gameState[TickPlayer(gameState)].timeLeft - 1)
                     THEN TimeoutOver(gameState) ELSE gameOver
    /\ interval' = TimerEffect(gameState', gameOver')
    /\ toast' = "none"
    /\ UNCHANGED <<screen, selectedTimer, stored, game, isFlipped,
                   selectedSquare, validMoves>>
    /\ UNCHANGED validator

\* the interval callback runs `elapsed` seconds after the previous run: one
\* second when the timer is on time, more after a suspension.  The callback
\* reads no clock, so what it does is the same for every `elapsed`.
WakeUp(elapsed) == Tick

\* a quantum of the pending second passes without the callback running
QuantumElapses ==
    /\ interval > 1
    /\ interval' = interval - 1
    /\ UNCHANGED <<screen, selectedTimer, stored, game, gameState, gameOver,
                   isFlipped, selectedSquare, validMoves, toast>>
    /\ UNCHANGED validator

\* the last quantum passes and the callback runs
DueTick == interval = 1 /\ Tick

\* mutant: the turn is set rather than flipped
FlipTurnSetsBlack(prev) == [prev EXCEPT !.currentTurn = "black"]


\* mutant: the flip is written over the gameState of the render, not over
\* the state the updater is handed
FlipTurnFromRender(prev) ==
    [gameState EXCEPT !.currentTurn = IF prev.currentTurn = "white" THEN "black" ELSE "white"]

\* mutant: the mover is given a second back
FlipTurnWithIncrement(prev) ==
    LET mover == IF prev.currentTurn = prev.playerA.color THEN "playerA" ELSE "playerB"
    IN  [prev EXCEPT !.currentTurn = IF prev.currentTurn = "white" THEN "black" ELSE "white",
                     ![mover].timeLeft = @ + 1]

FlipTurn(prev) ==
    [prev EXCEPT !.currentTurn = IF prev.currentTurn = "white" THEN "black" ELSE "white"]

\* mutant: the winner is read from the gameState after the turn was flipped
MoveOverAfterFlip(newGame, gs, go) ==
    IF isCheckmate(newGame)
      THEN LET winner == IF gs.currentTurn = gs.playerA.color
                           THEN gs.playerB.name ELSE gs.playerA.name
           IN  [ type |-> "checkmate", winner |-> Some(winner),
                 message |-> Msg("Checkmate! {0} wins!", << winner >>) ]
    ELSE IF isDraw(newGame) \/ isStalemate(newGame)
      THEN [ type |-> IF isStalemate(newGame) THEN "stalemate" ELSE "draw",
             winner |-> Undefined,
             message |-> Msg(IF isStalemate(newGame) THEN "Stalemate - Draw!" ELSE "Draw!",
                             << >>) ]
    ELSE go

\* mutant: a stalemate is reported as a plain draw
MoveOverStalemateAsDraw(newGame, gs, go) ==
    IF isCheckmate(newGame)
      THEN LET winner == IF gs.currentTurn = gs.playerA.color
                           THEN gs.playerA.name ELSE gs.playerB.name
           IN  [ type |-> "checkmate", winner |-> Some(winner),
                 message |-> Msg("Checkmate! {0} wins!", << winner >>) ]
    ELSE IF isDraw(newGame) \/ isStalemate(newGame)
      THEN [ type |-> "draw", winner |-> Undefined,
             message |-> Msg("Draw!", << >>) ]
    ELSE go

\* mutant: the draw is looked for before the checkmate
MoveOverDrawFirst(newGame, gs, go) ==
    IF isDraw(newGame) \/ isStalemate(newGame)
      THEN [ type |-> IF isStalemate(newGame) THEN "stalemate" ELSE "draw",
             winner |-> Undefined,
             message |-> Msg(IF isStalemate(newGame) THEN "Stalemate - Draw!" ELSE "Draw!",
                             << >>) ]
    ELSE IF isCheckmate(newGame)
      THEN LET winner == IF gs.currentTurn = gs.playerA.color
                           THEN gs.playerA.name ELSE gs.playerB.name
           IN  [ type |-> "checkmate", winner |-> Some(winner),
                 message |-> Msg("Checkmate! {0} wins!", << winner >>) ]
    ELSE go

\* the GameOver makeMove sets for the new position, read with the gameState
\* of the render that made the move
MoveOver(newGame, gs, go) ==
    IF isCheckmate(newGame)
      THEN LET winner == IF gs.currentTurn = gs.playerA.color
                           THEN gs.playerA.name ELSE gs.playerB.name
           IN  [ type |-> "checkmate", winner |-> Some(winner),
                 message |-> Msg("Checkmate! {0} wins!", << winner >>) ]
    ELSE IF isDraw(newGame) \/ isStalemate(newGame)
      THEN [ type |-> IF isStalemate(newGame) THEN "stalemate" ELSE "draw",
             winner |-> Undefined,
             message |-> Msg(IF isStalemate(newGame) THEN "Stalemate - Draw!" ELSE "Draw!",
                             << >>) ]
    ELSE go

MoveToast(newGame) ==
    IF isCheckmate(newGame) THEN "Checkmate! {0} wins!"
    ELSE IF isDraw(newGame) \/ isStalemate(newGame)
      THEN (IF isStalemate(newGame) THEN "Stalemate - Draw!" ELSE "Draw!")
    ELSE IF isCheck(newGame) THEN "Check!"
    ELSE "none"

\* makeMove returns true
makeMoveOk(from, to) == MoveFound(game, from, to)

\* what makeMove does to the Game component; onError is the advisory its
\* catch clause signals
makeMove(from, to, onError) ==
    IF makeMoveOk(from, to)
      THEN LET newGame == Chess(fen(move(game, from, to)))
           IN  /\ game' = newGame
               /\ gameState' = FlipTurn(gameState)
               /\ gameOver' = MoveOver(newGame, gameState, gameOver)
               /\ toast' = MoveToast(newGame)
               /\ interval' = TimerEffect(gameState', gameOver')
      ELSE /\ toast' = onError
           /\ UNCHANGED <<game, gameState, gameOver, interval>>

getCurrentPlayer(gs) ==
    IF gs.currentTurn = gs.playerA.color THEN gs.playerA ELSE gs.playerB

getOpponentPlayer(gs) ==
    IF gs.currentTurn = gs.playerA.color THEN gs.playerB ELSE gs.playerA
\* mutant: the turn is compared with the colour of player A
canMoveOfPlayerA == gameOver = Null /\ gameState.currentTurn = gameState.playerA.color

\* mutant: the permission does not look at gameOver
canMoveTurnOnly == gameState.currentTurn = getCurrentPlayer(gameState).color

\* the canMove property handed to ChessBoard
canMove == gameOver = Null /\ gameState.currentTurn = getCurrentPlayer(gameState).color

currentPlayerColor == getCurrentPlayer(gameState).color

InSeq(x, s) == \E i \in DOMAIN s : s[i] = x

\* mutant: the squares the moves start from are collected
getValidMovesFromSquare(square) ==
    LET ms == moves(game, square)
    IN  [i \in DOMAIN ms |-> ms[i].from]

getValidMovesForSquare(square) ==
    LET ms == moves(game, square)
    IN  [i \in DOMAIN ms |-> ms[i].to]

\* mutant: a piece of either colour counts as the player's own
OwnPieceAnyColor(piece) == piece # Empty

OwnPiece(piece) ==
    /\ piece # Empty
    /\ \/ (piece.color = "w" /\ currentPlayerColor = "white")
       \/ (piece.color = "b" /\ currentPlayerColor = "black")

\* mutant: the destinations are cleared and the square stays selected
SelectionAfterMoveKeepsSquare(moveSuccessful) ==
    IF moveSuccessful
      THEN validMoves' = << >> /\ UNCHANGED selectedSquare
      ELSE UNCHANGED <<selectedSquare, validMoves>>

\* mutant: the selection stays after the move was made
SelectionAfterMoveKept(moveSuccessful) == UNCHANGED <<selectedSquare, validMoves>>

\* mutant: the square is deselected and its destinations stay
SelectionAfterMoveKeepsMoves(moveSuccessful) ==
    IF moveSuccessful
      THEN selectedSquare' = NoSquare /\ UNCHANGED validMoves
      ELSE UNCHANGED <<selectedSquare, validMoves>>

\* the selection once onMove has returned
SelectionAfterMove(moveSuccessful) ==
    IF moveSuccessful
      THEN selectedSquare' = NoSquare /\ validMoves' = << >>
      ELSE UNCHANGED <<selectedSquare, validMoves>>

onSquareClick(square) ==
    /\ Mounted
    /\ IF ~canMove
         THEN /\ toast' = "Not your turn"
              /\ UNCHANGED <<game, gameState, gameOver, interval,
                             selectedSquare, validMoves>>
       ELSE IF selectedSquare # NoSquare /\ InSeq(square, validMoves)
         THEN /\ makeMove(selectedSquare, square, "Invalid move")
              /\ SelectionAfterMove(makeMoveOk(selectedSquare, square))
       ELSE IF OwnPiece(get(game, square))
         THEN /\ selectedSquare' = square
              /\ validMoves' = getValidMovesForSquare(square)
              /\ toast' = IF getValidMovesForSquare(square) = << >>
                            THEN "No valid moves for this piece" ELSE "none"
              /\ UNCHANGED <<game, gameState, gameOver, interval>>
       ELSE IF /\ get(game, square) # Empty
               /\ get(game, square).color # (IF currentPlayerColor = "white" THEN "w" ELSE "b")
         THEN /\ toast' = "You can only move your own pieces"
              /\ selectedSquare' = NoSquare
              /\ validMoves' = << >>
              /\ UNCHANGED <<game, gameState, gameOver, interval>>
       ELSE /\ toast' = "none"
            /\ selectedSquare' = NoSquare
            /\ validMoves' = << >>
            /\ UNCHANGED <<game, gameState, gameOver, interval>>
    /\ UNCHANGED <<screen, selectedTimer, stored, isFlipped>>
    /\ UNCHANGED validator

\* the drag-and-drop board of the earlier match screen: a drop calls makeMove,
\* whose catch clause there only logs
onPieceDrop(sourceSquare, targetSquare) ==
    /\ Mounted
    /\ makeMove(sourceSquare, targetSquare, "none")
    /\ UNCHANGED <<screen, selectedTimer, stored, isFlipped, selectedSquare, validMoves>>
    /\ UNCHANGED validator

\* mutant: the player who resigns is named the winner
ResignOverSelfWins(gs) ==
    LET currentPlayer == IF gs.currentTurn = gs.playerA.color THEN gs.playerA ELSE gs.playerB
        winner == currentPlayer.name
    IN  [ type |-> "timeout", winner |-> Some(winner),
          message |-> Msg("{0} resigned. {1} wins!", << currentPlayer.name, winner >>) ]

ResignOver(gs) ==
    LET currentPlayer == IF gs.currentTurn = gs.playerA.color THEN gs.playerA ELSE gs.playerB
        winner == IF gs.currentTurn = gs.playerA.color THEN gs.playerB.name ELSE gs.playerA.name
    IN  [ type |-> "timeout", winner |-> Some(winner),
          message |-> Msg("{0} resigned. {1} wins!", << currentPlayer.name, winner >>) ]

handleResign ==
    /\ Mounted
    /\ gameOver' = ResignOver(gameState)
    /\ interval' = TimerEffect(gameState, gameOver')
    /\ toast' = "none"
    /\ UNCHANGED <<screen, selectedTimer, stored, game, gameState, isFlipped,
                   selectedSquare, validMoves>>
    /\ UNCHANGED validator

onFlipBoard ==
    /\ Mounted
    /\ isFlipped' = ~isFlipped
    /\ toast' = "none"
    /\ UNCHANGED <<screen, selectedTimer, stored, game, gameState, gameOver,
                   interval, selectedSquare, validMoves>>
    /\ UNCHANGED validator

\* navigate('/') unmounts the Game component
onGoHome ==
    /\ Mounted
    /\ screen' = "setup"
    /\ FreshGame
    /\ toast' = "none"
    /\ UNCHANGED <<selectedTimer, stored>>
    /\ UNCHANGED validator

\* the headline of the game-over modal
Headline(go) == IF go.type = "checkmate" THEN "Checkmate!" ELSE "Draw!"

\* mutant: New Game restarts the match in place instead of leaving the screen
handleNewGameInPlace ==
    /\ Mounted
    /\ gameOver # Null
    /\ game' = NewChess
    /\ gameState' = stored
    /\ gameOver' = Null
    /\ interval' = TickQuanta
    /\ selectedSquare' = NoSquare
    /\ validMoves' = << >>
    /\ toast' = "none"
    /\ UNCHANGED <<screen, selectedTimer, stored, isFlipped>>
    /\ UNCHANGED validator


\* mutant: New Game leaves the stored record in place
handleNewGameKeepsRecord ==
    /\ Mounted
    /\ gameOver # Null
    /\ screen' = "setup"
    /\ FreshGame
    /\ toast' = "none"
    /\ UNCHANGED <<selectedTimer, stored>>
    /\ UNCHANGED validator

handleNewGame ==
    /\ Mounted
    /\ gameOver # Null
    /\ stored' = Null
    /\ screen' = "setup"
    /\ FreshGame
    /\ toast' = "none"
    /\ UNCHANGED selectedTimer
    /\ UNCHANGED validator

(***************************************************************************)
(* chess-validator.ts.  JavaScript values are tagged records: a number is  *)
(* kept as twice its value, so that 1.5 is a number that is no integer;    *)
(* NaN, undefined and null are values of their own; a string is an array   *)
(* of characters; an object is a record of its properties.  Index 0 of the *)
(* source is index 1 here.                                                 *)
(***************************************************************************)
Num(n) == [twice |-> 2 * n]
OneAndAHalf == [twice |-> 3]
NaN == [nan |-> TRUE]
JsUndefined == [undefined |-> TRUE]
JsString(s) == [str |-> s]
JsArray(items) == [items |-> items]
Position(x, y) == [x |-> x, y |-> y]

\* typeof v === 'number', typeof v === 'string', Array.isArray(v), Number.isInteger(v)
typeofNumber(v) == "twice" \in DOMAIN v \/ "nan" \in DOMAIN v
typeofString(v) == "str" \in DOMAIN v
isArray(v) == "items" \in DOMAIN v
isInteger(v) == "twice" \in DOMAIN v /\ v.twice % 2 = 0

\* v.x and v.y: a property that is not there reads as undefined
PropertyX(v) == IF "x" \in DOMAIN v THEN v.x ELSE JsUndefined
PropertyY(v) == IF "y" \in DOMAIN v THEN v.y ELSE JsUndefined

Digits == << "0", "1", "2", "3", "4", "5", "6", "7", "8", "9" >>
Uppers == << "A", "B", "C", "D", "E", "F", "G", "H", "I", "J", "K", "L", "M",
             "N", "O", "P", "Q", "R", "S", "T", "U", "V", "W", "X", "Y", "Z" >>
Lowers == << "a", "b", "c", "d", "e", "f", "g", "h", "i", "j", "k", "l", "m",
             "n", "o", "p", "q", "r", "s", "t", "u", "v", "w", "x", "y", "z" >>

IndexIn(c, s) == CHOOSE i \in DOMAIN s : s[i] = c

\* the UTF-16 code of a character of the alphabet used here
charCode(c) ==
    CASE InSeq(c, Digits) -> 47 + IndexIn(c, Digits)
      [] InSeq(c, Uppers) -> 64 + IndexIn(c, Uppers)
      [] InSeq(c, Lowers) -> 96 + IndexIn(c, Lowers)
      [] c = " " -> 32
      [] c = "@" -> 64
      [] c = "_" -> 95

\* String.fromCharCode, for the codes of digits and letters
fromCharCode(n) ==
    CASE n \in 48..57 -> Digits[n - 47]
      [] n \in 65..90 -> Uppers[n - 64]
      [] n \in 97..122 -> Lowers[n - 96]

\* s.toLowerCase()
toLowerCase(s) ==
    [i \in DOMAIN s |-> IF InSeq(s[i], Uppers) THEN Lowers[IndexIn(s[i], Uppers)] ELSE s[i]]

\* s.charCodeAt(i - 1)
charCodeAt(s, i) == charCode(s[i])

\* parseInt of a string of one character
parseInt(c) == IF InSeq(c, Digits) THEN Num(IndexIn(c, Digits) - 1) ELSE NaN

\* v - n and v + n for a number v: NaN stays NaN
Minus(v, n) == IF "nan" \in DOMAIN v THEN NaN ELSE [twice |-> v.twice - 2 * n]
Plus(v, n) == IF "nan" \in DOMAIN v THEN NaN ELSE [twice |-> v.twice + 2 * n]

\* the decimal digits of a natural number, as a template literal writes it
RECURSIVE NaturalToString(_)
NaturalToString(n) ==
    IF n < 10 THEN << Digits[n + 1] >>
    ELSE NaturalToString(n \div 10) \o << Digits[(n % 10) + 1] >>

\* mutant: the board is taken to have ranks and files 1 to 8
isValidPositionFromOne(position) ==
    IF ~typeofNumber(PropertyX(position)) \/ ~typeofNumber(PropertyY(position)) THEN FALSE
    ELSE IF ~isInteger(PropertyX(position)) \/ ~isInteger(PropertyY(position)) THEN FALSE
    ELSE /\ PropertyX(position).twice >= 2 * 1 /\ PropertyX(position).twice <= 2 * 8
         /\ PropertyY(position).twice >= 2 * 1 /\ PropertyY(position).twice <= 2 * 8

isValidPosition(position) ==
    IF ~typeofNumber(PropertyX(position)) \/ ~typeofNumber(PropertyY(position)) THEN FALSE
    ELSE IF ~isInteger(PropertyX(position)) \/ ~isInteger(PropertyY(position)) THEN FALSE
    ELSE /\ PropertyX(position).twice >= 2 * 0 /\ PropertyX(position).twice <= 2 * 7
         /\ PropertyY(position).twice >= 2 * 0 /\ PropertyY(position).twice <= 2 * 7

\* mutant: the empty array passes, as every() alone would have it
validatePiecePositionsEveryOnly(positions) ==
    IF ~isArray(positions) THEN FALSE
    ELSE \A i \in DOMAIN positions.items : isValidPosition(positions.items[i])

validatePiecePositions(positions) ==
    IF ~isArray(positions) THEN FALSE
    ELSE IF Len(positions.items) = 0 THEN FALSE
    ELSE \A i \in DOMAIN positions.items : isValidPosition(positions.items[i])

algebraicToPosition(algebraic) ==
    IF ~typeofString(algebraic) \/ Len(algebraic.str) # 2 THEN Null
    ELSE LET file == Num(charCodeAt(toLowerCase(algebraic.str), 1) - charCodeAt(<< "a" >>, 1))
             rank == Minus(parseInt(algebraic.str[2]), 1)
             position == [x |-> file, y |-> rank]
         IN  IF isValidPosition(position) THEN position ELSE Null

positionToAlgebraic(position) ==
    IF ~isValidPosition(position) THEN Null
    ELSE LET file == fromCharCode(charCodeAt(<< "a" >>, 1) + (position.x.twice \div 2))
             rank == Plus(position.y, 1)
         IN  JsString(<< file >> \o NaturalToString(rank.twice \div 2))

(***************************************************************************)
(* The arguments the functions of chess-validator are called with.         *)
(***************************************************************************)
SquareAlphabet ==
    { "a", "b", "c", "d", "e", "f", "g", "h", "i",
      "A", "B", "C", "D", "E", "F", "G", "H", "I",
      "0", "1", "2", "3", "4", "5", "6", "7", "8", "9",
      " ", "@", "_", "x" }
LongAlphabet == { "a", "H", "1", "8" }

StringInputs ==
    { JsString(<< >>) }
        \cup { JsString(<< c >>) : c \in SquareAlphabet }
        \cup { JsString(<< c, d >>) : c \in SquareAlphabet, d \in SquareAlphabet }
        \cup { JsString(<< c, d, e >>) : c \in LongAlphabet, d \in LongAlphabet, e \in LongAlphabet }

CoordinateInputs ==
    { Num(n) : n \in (0 - 1)..8 } \cup { OneAndAHalf, NaN, JsUndefined, JsString(<< "3" >>) }

PositionInputs == { Position(x, y) : x \in CoordinateInputs, y \in CoordinateInputs }

SamplePositions ==
    { Position(Num(0), Num(0)), Position(Num(7), Num(7)), Position(Num(3), Num(4)),
      Position(Num(8), Num(0)), Position(Num(0), Num(0 - 1)),
      Position(OneAndAHalf, Num(2)), Position(Num(3), JsUndefined) }

ArrayInputs ==
    { JsArray(<< >>) }
        \cup { JsArray(<< p >>) : p \in SamplePositions }
        \cup { JsArray(<< p, q >>) : p \in SamplePositions, q \in SamplePositions }
        \cup { JsArray(<< p, q, r >>) : p \in SamplePositions, q \in SamplePositions,
                                        r \in SamplePositions }

ValidatorInputs == StringInputs \cup PositionInputs \cup ArrayInputs \cup { Num(4) }

matchVars == <<screen, selectedTimer, stored, game, gameState, gameOver, isFlipped,
               interval, selectedSquare, validMoves, toast>>

\* an argument is at hand and nothing has been called with it
InitValidator ==
    /\ screen = "setup"
    /\ selectedTimer = DefaultTimer
    /\ stored = Null
    /\ game = NewChess
    /\ gameState = Null
    /\ gameOver = Null
    /\ isFlipped = FALSE
    /\ interval = 0
    /\ selectedSquare = NoSquare
    /\ validMoves = << >>
    /\ toast = "none"
    /\ validator \in { [fn |-> "none", arg |-> a] : a \in ValidatorInputs }

Called(fn) == validator.fn = fn
Returned(fn) == Called(fn) /\ "back" \notin DOMAIN validator

CallIsValidPosition ==
    /\ Called("none")
    /\ validator' = [fn |-> "isValidPosition", arg |-> validator.arg,
                     result |-> isValidPosition(validator.arg)]
    /\ UNCHANGED matchVars

CallValidatePiecePositions ==
    /\ Called("none")
    /\ validator' = [fn |-> "validatePiecePositions", arg |-> validator.arg,
                     result |-> validatePiecePositions(validator.arg)]
    /\ UNCHANGED matchVars

CallAlgebraicToPosition ==
    /\ Called("none")
    /\ validator' = [fn |-> "algebraicToPosition", arg |-> validator.arg,
                     result |-> algebraicToPosition(validator.arg)]
    /\ UNCHANGED matchVars

CallPositionToAlgebraic ==
    /\ Called("none")
    /\ validator' = [fn |-> "positionToAlgebraic", arg |-> validator.arg,
                     result |-> positionToAlgebraic(validator.arg)]
    /\ UNCHANGED matchVars

\* what a conversion returned, when it is not null, is converted back
CallPositionToAlgebraicBack ==
    /\ Returned("algebraicToPosition")
    /\ validator.result # Null
    /\ validator' = [fn |-> validator.fn, arg |-> validator.arg, result |-> validator.result,
                     back |-> positionToAlgebraic(validator.result)]
    /\ UNCHANGED matchVars

CallAlgebraicToPositionBack ==
    /\ Returned("positionToAlgebraic")
    /\ validator.result # Null
    /\ validator' = [fn |-> validator.fn, arg |-> validator.arg, result |-> validator.result,
                     back |-> algebraicToPosition(validator.result)]
    /\ UNCHANGED matchVars

NextValidator ==
    \/ CallIsValidPosition
    \/ CallValidatePiecePositions
    \/ CallAlgebraicToPosition
    \/ CallPositionToAlgebraic
    \/ CallPositionToAlgebraicBack
    \/ CallAlgebraicToPositionBack

SpecValidator == InitValidator /\ [][NextValidator]_vars

(***************************************************************************)
(* Specifications.  Spec is the match screen with the click-to-move        *)
(* board; SpecDrop is the match screen with the drag-and-drop board;       *)
(* SpecSetup is the setup screen with the clocks unscaled.                 *)
(***************************************************************************)
Setup ==
    \/ \E m \in TimerOptions : SelectTimer(m)
    \/ \E a \in NameInputsA, b \in NameInputsB, w \in BOOLEAN : handleStartGame(a, b, w)
    \/ OpenGameRoute

Controls ==
    \/ LoadEffect
    \/ \E k \in 1..MaxElapsed : WakeUp(k)
    \/ handleResign
    \/ onFlipBoard
    \/ onGoHome
    \/ handleNewGame

Next ==
    \/ Setup
    \/ Controls
    \/ \E sq \in Squares : onSquareClick(sq)

Spec == Init /\ [][Next]_vars

NextDrop ==
    \/ Setup
    \/ Controls
    \/ \E f \in Squares, t \in Squares : onPieceDrop(f, t)

SpecDrop == Init /\ [][NextDrop]_vars

\* the drag-and-drop match screen used for nothing but play: a match is set
\* up at the selected timer, the clock runs, pieces are dropped, and New Game
\* leads back to the setup screen
NextMoves ==
    \/ \E a \in NameInputsA, b \in NameInputsB, w \in BOOLEAN : handleStartGame(a, b, w)
    \/ OpenGameRoute
    \/ LoadEffect
    \/ \E k \in 1..MaxElapsed : WakeUp(k)
    \/ handleNewGame
    \/ \E f \in Squares, t \in Squares : onPieceDrop(f, t)

SpecMoves == Init /\ [][NextMoves]_vars

\* the setup screen and the hand-over to the match screen, with the clocks
\* in seconds; the match is opened, flipped, resigned and left, not played
NextSetup ==
    \/ \E m \in TimerOptions : SelectTimer(m)
    \/ \E a \in SetupNamesA, b \in SetupNamesB, w \in BOOLEAN :
          handleStartGameInSeconds(a, b, w)
    \/ OpenGameRoute
    \/ LoadEffect
    \/ handleResign
    \/ onFlipBoard
    \/ onGoHome
    \/ handleNewGame

SpecSetup == Init /\ [][NextSetup]_vars

\* Spec for a match that is not walked away from, with a clock that runs:
\* the browser keeps calling the interval callback while it is scheduled
NextPlay ==
    \/ Setup
    \/ LoadEffect
    \/ \E k \in 1..MaxElapsed : WakeUp(k)
    \/ handleResign
    \/ onFlipBoard
    \/ handleNewGame
    \/ \E sq \in Squares : onSquareClick(sq)

SpecFair == Init /\ [][NextPlay]_vars /\ WF_vars(Tick)

\* the match screen with the click-to-move board, the time between a state
\* change and the next run of the interval callback followed in quanta
NextCadence ==
    \/ Setup
    \/ LoadEffect
    \/ QuantumElapses
    \/ DueTick
    \/ handleResign
    \/ \E sq \in Squares : onSquareClick(sq)

SpecCadence == Init /\ [][NextCadence]_vars

\* the match screen played far enough for a position to come back: the same
\* oracle and the same makeMove, with the halfmove clock counted up to
\* RepetitionHorizon so that the fifty-move rule does not end the match
\* before a third occurrence
HalfMovesAfterLong(g, from, to) ==
    IF g.board[to] # Empty \/ g.board[from].type = "p" THEN 0
    ELSE IF g.halfMoves < RepetitionHorizon THEN g.halfMoves + 1
    ELSE RepetitionHorizon

moveLong(g, from, to) ==
    LET ms == moves(g, from)
        b == ApplyMove(g.board, ms[MoveIndex(ms, to)])
        f == [board |-> b, turn |-> Opp(g.turn)]
    IN  [board |-> b, turn |-> Opp(g.turn),
         halfMoves |-> HalfMovesAfterLong(g, from, to),
         history |-> Append(g.history, f)]

isDrawLong(g) ==
    \/ g.halfMoves >= RepetitionHorizon
    \/ isStalemate(g)
    \/ isInsufficientMaterial(g)
    \/ isThreefoldRepetition(g)

MoveOverLong(newGame, gs, go) ==
    IF isCheckmate(newGame)
      THEN LET winner == IF gs.currentTurn = gs.playerA.color
                           THEN gs.playerA.name ELSE gs.playerB.name
           IN  [ type |-> "checkmate", winner |-> Some(winner),
                 message |-> Msg("Checkmate! {0} wins!", << winner >>) ]
    ELSE IF isDrawLong(newGame) \/ isStalemate(newGame)
      THEN [ type |-> IF isStalemate(newGame) THEN "stalemate" ELSE "draw",
             winner |-> Undefined,
             message |-> Msg(IF isStalemate(newGame) THEN "Stalemate - Draw!" ELSE "Draw!",
                             << >>) ]
    ELSE go

MoveToastLong(newGame) ==
    IF isCheckmate(newGame) THEN "Checkmate! {0} wins!"
    ELSE IF isDrawLong(newGame) \/ isStalemate(newGame)
      THEN (IF isStalemate(newGame) THEN "Stalemate - Draw!" ELSE "Draw!")
    ELSE IF isCheck(newGame) THEN "Check!"
    ELSE "none"

makeMoveLong(from, to) ==
    LET newGame == Chess(fen(moveLong(game, from, to)))
    IN  /\ game' = newGame
        /\ gameState' = FlipTurn(gameState)
        /\ gameOver' = MoveOverLong(newGame, gameState, gameOver)
        /\ toast' = MoveToastLong(newGame)
        /\ interval' = TimerEffect(gameState', gameOver')

\* a piece of the side to move is clicked and then one of its highlighted
\* squares: the two clicks taken as one step, the selection set by the first
\* and cleared by the second
TwoClickMove(from, to) ==
    /\ Mounted
    /\ canMove
    /\ selectedSquare = NoSquare
    /\ OwnPiece(get(game, from))
    /\ InSeq(to, getValidMovesForSquare(from))
    /\ makeMoveLong(from, to)
    /\ UNCHANGED <<screen, selectedTimer, stored, isFlipped, selectedSquare, validMoves>>
    /\ UNCHANGED validator

\* one match from the setup screen to its end, never left; the browser keeps
\* calling the interval callback while it is scheduled
NextRepetition ==
    \/ \E a \in NameInputsA, b \in NameInputsB, w \in BOOLEAN : handleStartGame(a, b, w)
    \/ OpenGameRoute
    \/ LoadEffect
    \/ \E k \in 1..MaxElapsed : WakeUp(k)
    \/ \E f \in Squares, t \in Squares : TwoClickMove(f, t)

SpecRepetition == Init /\ [][NextRepetition]_vars /\ WF_vars(Tick)

\* the setup screen of SpecSetup, with a storage key that others can write too
NextStorage ==
    \/ NextSetup
    \/ \E r \in ForeignRecords : WriteForeignRecord(r)

SpecStorage == Init /\ [][NextStorage]_vars

(***************************************************************************)
(* Vocabulary of the claims.                                               *)
(***************************************************************************)
\* the match is on screen and has not ended
InProgress == Mounted /\ gameOver = Null

\* the key and the record of the player whose colour is to move, and of the other
ToMoveKey == IF gameState.playerA.color = gameState.currentTurn THEN "playerA" ELSE "playerB"
WaitingKey == IF ToMoveKey = "playerA" THEN "playerB" ELSE "playerA"
ToMove == gameState[ToMoveKey]
Waiting == gameState[WaitingKey]

\* this step is a click on the board / a piece dropped on the board
ClickStep == \E sq \in Squares : onSquareClick(sq)
DropStep == \E f \in Squares, t \in Squares : onPieceDrop(f, t)

\* this step is a click that commits a move makeMove accepts
AcceptedClick ==
    /\ Mounted
    /\ gameOver = Null
    /\ selectedSquare # NoSquare
    /\ game'.turn # game.turn
    /\ \E sq \in Squares :
          /\ InSeq(sq, validMoves)
          /\ MoveFound(game, selectedSquare, sq)
          /\ onSquareClick(sq)

ByClock(go) == go # Null /\ go.message.template = "{0} wins by timeout!"
ByResignation(go) == go # Null /\ go.message.template = "{0} resigned. {1} wins!"

(***************************************************************************)
(* C1: the match starts with white to move; a step of a running match      *)
(* changes currentTurn exactly when it is a click that commits an accepted *)
(* move, and then it flips it; ticks, rejected clicks, selections, flips   *)
(* and resignations leave currentTurn alone.                               *)
(***************************************************************************)
C1_TurnAlternates ==
    [][ /\ (~Mounted /\ Mounted') => gameState'.currentTurn = "white"
        /\ (Mounted /\ Mounted') =>
              IF AcceptedClick
                THEN gameState'.currentTurn # gameState.currentTurn
                ELSE gameState'.currentTurn = gameState.currentTurn ]_vars

\* two moves were accepted and both clocks have been ticking in between
C1_Witness ==
    /\ InProgress
    /\ game.board # StartBoard
    /\ gameState.currentTurn = "white"
    /\ gameState.playerA.timeLeft < stored.playerA.timeLeft
    /\ gameState.playerB.timeLeft < stored.playerB.timeLeft

(***************************************************************************)
(* C2: in every state of a match both players' timeLeft are non-negative   *)
(* integers.                                                               *)
(***************************************************************************)
C2_TimeNonNegative ==
    Mounted => gameState.playerA.timeLeft \in Nat /\ gameState.playerB.timeLeft \in Nat

\* a clock has run out after moves were made
C2_Witness ==
    /\ Mounted
    /\ ByClock(gameOver)
    /\ game.board # StartBoard
    /\ gameState.playerA.timeLeft # gameState.playerB.timeLeft

C4_TimeoutWinner ==
    [][ Tick =>
          /\ gameOver = Null
          /\ gameOver' # Null =>
                /\ gameOver'.type = "timeout"
                /\ gameOver'.winner = Some(Waiting.name)
                /\ Waiting.color # gameState.currentTurn
                /\ gameState' = gameState ]_vars

\* black ran out of time on black's turn
C4_Witness ==
    /\ Mounted
    /\ ByClock(gameOver)
    /\ gameState.currentTurn = "black"
    /\ gameOver.winner = Some(Waiting.name)
    /\ Waiting.color = "white"

(***************************************************************************)
(* C5: once gameOver is set, it stays set for as long as the match screen  *)
(* is shown.                                                               *)
(***************************************************************************)
C5_TerminalAbsorbing ==
    [][ (Mounted /\ gameOver # Null) => (gameOver' # Null \/ screen' # "game") ]_vars

\* after the end of the match the board was clicked and flipped
C5_Witness ==
    /\ Mounted
    /\ gameOver # Null
    /\ toast = "Not your turn"
    /\ isFlipped = (gameState.playerA.color = "white")

(***************************************************************************)
(* C6: a resign call made when GameOver is already set leaves GameOver,    *)
(* the match and the selection unchanged.                                  *)
(***************************************************************************)
C6_ResignAfterGameOver ==
    [][ (handleResign /\ gameOver # Null) =>
            UNCHANGED <<gameOver, gameState, game, selectedSquare, validMoves>> ]_vars

(***************************************************************************)
(* C7: makeMove called after GameOver is set returns failure and changes   *)
(* neither the position, currentTurn, a timeLeft nor gameOver.             *)
(***************************************************************************)
C7_MoveAfterGameOver ==
    [][ (DropStep /\ gameOver # Null) =>
            /\ \A f \in Squares, t \in Squares : onPieceDrop(f, t) => ~makeMoveOk(f, t)
            /\ UNCHANGED <<game, gameState, gameOver>> ]_vars

(***************************************************************************)
(* C8: once GameOver is set, and once the match screen has been left, no   *)
(* tick can be taken: the interval is cancelled.                           *)
(***************************************************************************)
C8_TickCancelled ==
    (screen # "game" \/ gameOver # Null) => (interval = 0 /\ ~ENABLED Tick)

\* a resignation ended the match while the side to move had time to lose
C8_Witness ==
    /\ Mounted
    /\ ByResignation(gameOver)
    /\ ToMove.timeLeft >= 2

(***************************************************************************)
(* C9: a click on a square when GameOver is set, or when currentTurn is    *)
(* not the colour of the current player, changes neither the selection nor *)
(* the match and signals "Not your turn".                                  *)
(***************************************************************************)
C9_ClickWithoutPermission ==
    [][ ( /\ Mounted
          /\ gameOver # Null \/ gameState.currentTurn # getCurrentPlayer(gameState).color
          /\ ClickStep ) =>
            /\ UNCHANGED <<selectedSquare, validMoves, game, gameState, gameOver>>
            /\ toast' = "Not your turn" ]_vars

\* a click was rejected after the end of the match, with a selection on the board
C9_Witness ==
    /\ Mounted
    /\ gameOver # Null
    /\ toast = "Not your turn"
    /\ selectedSquare # NoSquare
    /\ validMoves # << >>

(***************************************************************************)
(* C10: a tick of a running match either takes exactly one second from the *)
(* player whose colour is currentTurn and changes nothing else, or sets    *)
(* GameOver and changes no timeLeft; the player who is not to move keeps   *)
(* his time.                                                               *)
(***************************************************************************)
C10_TickFrame ==
    [][ Tick =>
          /\ \/ /\ gameState' = [gameState EXCEPT ![ToMoveKey].timeLeft = @ - 1]
                /\ gameOver' = gameOver
             \/ /\ gameState' = gameState
                /\ gameOver' # Null
          /\ ToMove.color = gameState.currentTurn
          /\ gameState'[WaitingKey] = Waiting
          /\ game' = game ]_vars

\* black's clock has been debited while white's is untouched
C10_Witness ==
    /\ InProgress
    /\ gameState.currentTurn = "black"
    /\ ToMove.timeLeft < stored[ToMoveKey].timeLeft
    /\ Waiting.timeLeft = stored[WaitingKey].timeLeft

(***************************************************************************)
(* C11: in every state of a match started from the setup screen the two    *)
(* players hold opposite colours, exactly one of them holds the colour of  *)
(* currentTurn, and getCurrentPlayer and getOpponentPlayer return two      *)
(* different players: the first is the one whose colour is currentTurn,    *)
(* the second the other one.                                               *)
(***************************************************************************)
C11_OneSideToMove ==
    Mounted =>
        /\ gameState.playerA.color # gameState.playerB.color
        /\ (gameState.playerA.color = gameState.currentTurn)
              # (gameState.playerB.color = gameState.currentTurn)
        /\ getCurrentPlayer(gameState) # getOpponentPlayer(gameState)
        /\ getCurrentPlayer(gameState).color = gameState.currentTurn
        /\ getOpponentPlayer(gameState).color # gameState.currentTurn
        /\ {getCurrentPlayer(gameState), getOpponentPlayer(gameState)}
              = {gameState.playerA, gameState.playerB}

\* player B, who drew white, is waiting for player A to answer as black
C11_Witness ==
    /\ InProgress
    /\ gameState.currentTurn = "black"
    /\ gameState.playerA.color = "black"
    /\ getCurrentPlayer(gameState) = gameState.playerA
    /\ getOpponentPlayer(gameState) = gameState.playerB
    /\ game.board # StartBoard

\* the player of record gs whose colour is not the one to move
NotToMove(gs) == IF gs.playerA.color = gs.currentTurn THEN gs.playerB ELSE gs.playerA

(***************************************************************************)
(* C12: when an accepted move leaves the position in checkmate, the        *)
(* GameOver set is of kind checkmate and its winner is the name of the     *)
(* player who made the move: the one who was to move before it, whose      *)
(* colour differs from currentTurn once the turn is flipped.  Ticks taken  *)
(* before the move do not change this.                                     *)
(***************************************************************************)
C12_CheckmateWinner ==
    [][ (AcceptedClick /\ isCheckmate(game')) =>
            /\ gameOver' # Null
            /\ gameOver'.type = "checkmate"
            /\ gameOver'.winner = Some(NotToMove(gameState').name)
            /\ NotToMove(gameState') = ToMove
            /\ gameOver'.message = Msg("Checkmate! {0} wins!", << ToMove.name >>)
      ]_vars

\* black has mated white after both clocks have run
C12_Witness ==
    /\ Mounted
    /\ gameOver # Null
    /\ gameOver.type = "checkmate"
    /\ isCheckmate(game)
    /\ gameState.currentTurn = "white"
    /\ gameOver.winner = Some(NotToMove(gameState).name)
    /\ NotToMove(gameState).color = "black"
    /\ gameState.playerA.timeLeft < stored.playerA.timeLeft
    /\ gameState.playerB.timeLeft < stored.playerB.timeLeft

(***************************************************************************)
(* C13: when an accepted move leaves a position that is not checkmate, a   *)
(* stalemate sets a GameOver of kind stalemate with no winner, and a       *)
(* position that is no stalemate but drawn by another rule sets a GameOver *)
(* of kind draw with no winner.                                            *)
(***************************************************************************)
C13_DrawKinds ==
    [][ (AcceptedClick /\ ~isCheckmate(game')) =>
            /\ isStalemate(game') =>
                  /\ gameOver' # Null
                  /\ gameOver'.type = "stalemate"
                  /\ gameOver'.winner = Undefined
            /\ (~isStalemate(game') /\ isDraw(game')) =>
                  /\ gameOver' # Null
                  /\ gameOver'.type = "draw"
                  /\ gameOver'.winner = Undefined
      ]_vars

\* a move has left the side to move without a legal move and out of check
C13_Witness ==
    /\ Mounted
    /\ isStalemate(game)
    /\ gameOver # Null
    /\ gameOver.type = "stalemate"
    /\ gameOver.winner = Undefined

(***************************************************************************)
(* C14: makeMove looks at the new position in the order checkmate, then    *)
(* stalemate or another draw, then check, and acts on the first that       *)
(* holds: a position that is checkmate yields kind checkmate even when it  *)
(* is also drawn by another rule, one GameOver and one advisory come out   *)
(* of one move, and a position that is only check (or none of these) sets  *)
(* no GameOver.                                                            *)
(***************************************************************************)
C14_TerminalOrder ==
    [][ AcceptedClick =>
          IF isCheckmate(game')
            THEN /\ gameOver' # Null
                 /\ gameOver'.type = "checkmate"
                 /\ toast' = "Checkmate! {0} wins!"
          ELSE IF isStalemate(game') \/ isDraw(game')
            THEN /\ gameOver' # Null
                 /\ gameOver'.type \in {"stalemate", "draw"}
                 /\ toast' \in {"Stalemate - Draw!", "Draw!"}
          ELSE /\ gameOver' = Null
               /\ toast' = IF isCheck(game') THEN "Check!" ELSE "none"
      ]_vars

\* a quiet move has mated on the halfmove that also completes the draw count
C14_Witness ==
    /\ Mounted
    /\ isCheckmate(game)
    /\ isDrawByFiftyMoves(game)
    /\ gameOver # Null
    /\ gameOver.type = "checkmate"
    /\ toast = "Checkmate! {0} wins!"

(***************************************************************************)
(* C15: a resignation made while the match is in progress sets a GameOver  *)
(* of kind timeout whose winner is the name of the player whose colour     *)
(* differs from currentTurn and whose message names the player whose       *)
(* colour is currentTurn as the one resigning; the position, currentTurn   *)
(* and both timeLeft stay as they were.                                    *)
(***************************************************************************)
C15_Resignation ==
    [][ (InProgress /\ handleResign) =>
            /\ gameOver' =
                  [ type |-> "timeout",
                    winner |-> Some(Waiting.name),
                    message |-> Msg("{0} resigned. {1} wins!",
                                    << ToMove.name, Waiting.name >>) ]
            /\ Waiting.color # gameState.currentTurn
            /\ ToMove.color = gameState.currentTurn
            /\ ToMove.name # Waiting.name
            /\ UNCHANGED <<game, gameState>>
      ]_vars

\* black, to move in a position that ends nothing and with time in hand,
\* has resigned
C15_Witness ==
    /\ Mounted
    /\ ByResignation(gameOver)
    /\ gameState.currentTurn = "black"
    /\ gameOver.winner = Some(Waiting.name)
    /\ Waiting.color = "white"
    /\ ToMove.timeLeft >= 2
    /\ game.board # StartBoard
    /\ ~isCheckmate(game) /\ ~isStalemate(game) /\ ~isDraw(game)

\* the set of squares the oracle lets the piece on sq move to in position g
LegalDestinations(g, sq) == { moves(g, sq)[i].to : i \in DOMAIN moves(g, sq) }

\* the squares held in an array
Range(s) == { s[i] : i \in DOMAIN s }

(***************************************************************************)
(* C16: whenever a square is selected, validMoves holds exactly the        *)
(* oracle's legal destinations from that square in the current position:   *)
(* the highlighted squares are never left over from another position or    *)
(* another square, whatever clicks, accepted moves and ticks came before.  *)
(***************************************************************************)
C16_ValidMovesCurrent ==
    (Mounted /\ selectedSquare # NoSquare) =>
        Range(validMoves) = LegalDestinations(game, selectedSquare)

\* a piece with somewhere to go is selected after a move was made and a
\* second has run off the mover's clock
C16_Witness ==
    /\ InProgress
    /\ selectedSquare # NoSquare
    /\ validMoves # << >>
    /\ Range(validMoves) = LegalDestinations(game, selectedSquare)
    /\ game.board # StartBoard
    /\ ToMove.timeLeft < stored[ToMoveKey].timeLeft

(***************************************************************************)
(* C17: with the match in progress and a square selected, a click on a     *)
(* square of validMoves calls makeMove(selectedSquare, clicked) and does   *)
(* nothing else.  When the oracle accepts the move the new position is the *)
(* oracle's, the turn is flipped and the selection is cleared; when it     *)
(* refuses, the selection, the position, currentTurn and gameOver are      *)
(* unchanged and an error is signalled.                                    *)
(***************************************************************************)
C17_ClickOnValidMove ==
    [][ \A sq \in Squares :
          ( /\ InProgress
            /\ selectedSquare # NoSquare
            /\ InSeq(sq, validMoves)
            /\ onSquareClick(sq) ) =>
              IF MoveFound(game, selectedSquare, sq)
                THEN /\ game' = Chess(fen(move(game, selectedSquare, sq)))
                     /\ gameState' = [gameState EXCEPT !.currentTurn =
                           IF @ = "white" THEN "black" ELSE "white"]
                     /\ selectedSquare' = NoSquare
                     /\ validMoves' = << >>
                     /\ toast' # "Invalid move"
                ELSE /\ UNCHANGED <<selectedSquare, validMoves, game, gameState, gameOver>>
                     /\ toast' = "Invalid move"
      ]_vars

\* the click that gave check has just been handled: the move is on the
\* board and nothing is selected
C17_Witness ==
    /\ InProgress
    /\ toast = "Check!"
    /\ isCheck(game)
    /\ game.board # StartBoard
    /\ selectedSquare = NoSquare
    /\ validMoves = << >>

\* the colour letter the oracle uses for the side currentTurn names
TurnLetter == IF gameState.currentTurn = "white" THEN "w" ELSE "b"

\* a click on sq is taken as committing a move of the selected piece
MoveClick(sq) == selectedSquare # NoSquare /\ InSeq(sq, validMoves)

(***************************************************************************)
(* C18: with the match in progress, a click that is not a move to a square *)
(* of validMoves and lands on a piece of the side to move selects that     *)
(* square, whatever was selected before, and sets validMoves to the        *)
(* oracle's legal destinations from it; when there are none the square is  *)
(* still selected, with an empty validMoves.  The match (position,         *)
(* players, clocks, turn, gameOver) is unchanged.                          *)
(***************************************************************************)
C18_SelectOwnPiece ==
    [][ \A sq \in Squares :
          ( /\ InProgress
            /\ ~MoveClick(sq)
            /\ get(game, sq).color = TurnLetter
            /\ onSquareClick(sq) ) =>
              /\ selectedSquare' = sq
              /\ Len(validMoves') = Len(moves(game, sq))
              /\ \A i \in DOMAIN validMoves' : validMoves'[i] = moves(game, sq)[i].to
              /\ UNCHANGED <<game, gameState, gameOver>>
      ]_vars

\* after a move, a piece that cannot move has been clicked: it is selected
\* and nothing is highlighted
C18_Witness ==
    /\ InProgress
    /\ selectedSquare # NoSquare
    /\ get(game, selectedSquare).color = TurnLetter
    /\ validMoves = << >>
    /\ toast = "No valid moves for this piece"
    /\ game.board # StartBoard

(***************************************************************************)
(* C19: with the match in progress, a click on a square that is not in     *)
(* validMoves and holds an opposing piece or nothing clears the selection  *)
(* and leaves the position, currentTurn, both timeLeft and gameOver        *)
(* unchanged; on an opposing piece an advisory is signalled, on an empty   *)
(* square nothing is.                                                      *)
(***************************************************************************)
C19_ClickElsewhere ==
    [][ \A sq \in Squares :
          ( /\ InProgress
            /\ ~InSeq(sq, validMoves)
            /\ get(game, sq).color # TurnLetter
            /\ onSquareClick(sq) ) =>
              /\ selectedSquare' = NoSquare
              /\ validMoves' = << >>
              /\ UNCHANGED <<game, gameState, gameOver>>
              /\ toast' = IF get(game, sq) = Empty
                            THEN "none" ELSE "You can only move your own pieces"
      ]_vars

\* after a move, a piece of the side that is not to move has been clicked
C19_Witness ==
    /\ InProgress
    /\ toast = "You can only move your own pieces"
    /\ selectedSquare = NoSquare
    /\ validMoves = << >>
    /\ game.board # StartBoard
    /\ \E sq \in Squares : get(game, sq).color = Opp(TurnLetter)

(***************************************************************************)
(* C20: every record written by starting a game has white to move, gives   *)
(* the two players opposite colours, and gives both the same timeLeft,     *)
(* the chosen minutes times 60; the chosen minutes are 5 or 10, so the     *)
(* timeLeft written is 300 or 600.                                         *)
(***************************************************************************)
C20_SetupRecord ==
    [][ (stored' # stored /\ stored' # Null) =>
            /\ selectedTimer \in {5, 10}
            /\ stored'.currentTurn = "white"
            /\ {stored'.playerA.color, stored'.playerB.color} = {"white", "black"}
            /\ stored'.playerA.timeLeft = stored'.playerB.timeLeft
            /\ stored'.playerA.timeLeft = selectedTimer * 60
            /\ stored'.playerA.timeLeft \in {300, 600}
      ]_vars

\* a game started at five minutes in which player A drew black has been
\* loaded by the match screen
C20_Witness ==
    /\ Mounted
    /\ gameState = stored
    /\ stored.currentTurn = "white"
    /\ stored.playerA.color = "black"
    /\ stored.playerB.color = "white"
    /\ stored.playerA.timeLeft = 300
    /\ stored.playerB.timeLeft = 300

(***************************************************************************)
(* C21: when the match screen is entered and the storage key is missing or *)
(* holds a text that is not a setup record, the load step goes back to the *)
(* setup screen: no match is mounted, no tick is scheduled and no error    *)
(* escapes the load step.                                                  *)
(***************************************************************************)
C21_CorruptRecordRedirects ==
    [][ (LoadEffect /\ stored \in ForeignRecords \cup {Null}) =>
            /\ screen' = "setup"
            /\ gameState' = Null
            /\ interval' = 0
      ]_vars

(***************************************************************************)
(* C22: the stored setup record is written only by the setup screen when   *)
(* it starts a game and removed only by New Game; no tick, click, move,    *)
(* flip or resignation of the match screen touches it.  New Game removes   *)
(* it, a match is on screen only while it is there, and entering the match *)
(* screen without it leads back to setup.                                  *)
(***************************************************************************)
C22_RecordLifecycle ==
    [][ /\ (stored' # stored) =>
              \/ (screen = "setup" /\ screen' = "game" /\ stored' # Null)
              \/ (handleNewGame /\ stored' = Null)
        /\ handleNewGame => (stored' = Null /\ screen' = "setup")
        /\ Mounted' => stored' # Null
        /\ (LoadEffect /\ stored = Null) => (screen' = "setup" /\ gameState' = Null)
      ]_vars

\* the match screen has been entered with no record in storage
C22_Witness ==
    /\ screen = "game"
    /\ stored = Null
    /\ gameState = Null
    /\ interval = 0

(***************************************************************************)
(* C23: when the interval callback runs k whole seconds after its previous *)
(* run, the side to move is debited k seconds.                             *)
(***************************************************************************)
C23_DebitElapsed ==
    [][ \A k \in 1..MaxElapsed :
          (InProgress /\ ToMove.timeLeft > k /\ WakeUp(k)) =>
              gameState'[ToMoveKey].timeLeft = ToMove.timeLeft - k
      ]_vars

(***************************************************************************)
(* C24: while the match is in progress the pending run of the interval     *)
(* callback is not moved by a gesture: an accepted move that leaves the    *)
(* match in progress leaves the time to the next tick as it was.           *)
(***************************************************************************)
C24_MoveKeepsCadence ==
    [][ (InProgress /\ AcceptedClick /\ InProgress') => interval' = interval ]_vars

(***************************************************************************)
(* C25: the tick and the move each update the state they are handed, so    *)
(* neither loses the other's update.  From any state of a match in         *)
(* progress where a move can be made, the tick's updater applied to the    *)
(* result of the move's, and the move's applied to the result of the       *)
(* tick's, both give a state with the turn flipped and one second debited; *)
(* the second is charged to the player whose colour is currentTurn in the  *)
(* state the tick is handed: the mover when the tick comes first, the      *)
(* other player when the move comes first.                                 *)
(***************************************************************************)
C25_NoLostUpdate ==
    (InProgress /\ HasLegalMove(game)) =>
        LET tickThenMove == FlipTurn(TickState(gameState))
            moveThenTick == TickState(FlipTurn(gameState))
        IN  /\ tickThenMove.currentTurn # gameState.currentTurn
            /\ moveThenTick.currentTurn # gameState.currentTurn
            /\ ToMove.timeLeft >= 2 =>
                  /\ tickThenMove[ToMoveKey].timeLeft = ToMove.timeLeft - 1
                  /\ tickThenMove[WaitingKey] = Waiting
            /\ Waiting.timeLeft >= 2 =>
                  /\ moveThenTick[WaitingKey].timeLeft = Waiting.timeLeft - 1
                  /\ moveThenTick[ToMoveKey] = ToMove

\* white's clock ran, white moved, black's clock ran: the turn is flipped
\* and each debit sits with the player who was to move when it was made
C25_Witness ==
    /\ InProgress
    /\ HasLegalMove(game)
    /\ gameState.currentTurn = "black"
    /\ game.board # StartBoard
    /\ gameState.playerA.timeLeft = stored.playerA.timeLeft - 1
    /\ gameState.playerB.timeLeft = stored.playerB.timeLeft - 1

(***************************************************************************)
(* C26: with a clock that keeps ticking while its interval is scheduled,   *)
(* every match that is in progress eventually has GameOver set, whatever   *)
(* the players click, move or flip, and also when they do nothing.         *)
(***************************************************************************)
C26_MatchEnds == InProgress ~> (Mounted /\ gameOver # Null)

\* nobody moved and the clock of the side to move ran out
C26_Witness ==
    /\ Mounted
    /\ ByClock(gameOver)
    /\ game.board = StartBoard
    /\ ToMove.timeLeft = 1

\* a text that is empty or made of spaces only
AllSpaces(s) == \A i \in DOMAIN s : s[i] = " "

(***************************************************************************)
(* C27: starting a game while either name field is empty or holds only     *)
(* spaces writes no record and stays on the setup screen; every name in a  *)
(* record that is written is non-empty and neither starts nor ends with a  *)
(* space.                                                                  *)
(***************************************************************************)
C27_NamesTrimmed ==
    [][ /\ \A a \in SetupNamesA, b \in SetupNamesB, w \in BOOLEAN :
              (handleStartGameInSeconds(a, b, w) /\ (AllSpaces(a) \/ AllSpaces(b))) =>
                  (stored' = stored /\ screen' = "setup")
        /\ (stored' # stored /\ stored' # Null) =>
              \A p \in {"playerA", "playerB"} :
                  LET n == stored'[p].name
                  IN  /\ n # << >>
                      /\ n[1] # " "
                      /\ n[Len(n)] # " "
      ]_vars

\* the names typed as "a " and " b" are stored as "a" and "b"
C27_Witness ==
    /\ stored # Null
    /\ stored.playerA.name = << "a" >>
    /\ stored.playerB.name = << "b" >>
    /\ screen = "game"

(***************************************************************************)
(* C28: in every state of a match, currentTurn names the side to move of   *)
(* the oracle's position, so the pieces the board lets the player select   *)
(* are exactly the pieces of the side the oracle gives moves to.           *)
(***************************************************************************)
C28_TurnMatchesOracle ==
    Mounted =>
        /\ (gameState.currentTurn = "white") = (game.turn = "w")
        /\ (gameState.currentTurn = "black") = (game.turn = "b")
        /\ \A sq \in Squares :
              OwnPiece(get(game, sq)) = (get(game, sq).color = game.turn)
        /\ \A sq \in Squares :
              moves(game, sq) # << >> => OwnPiece(get(game, sq))

\* black is to move on the board and in the match, with a piece to move
C28_Witness ==
    /\ InProgress
    /\ gameState.currentTurn = "black"
    /\ game.turn = "b"
    /\ \E sq \in Squares : moves(game, sq) # << >> /\ OwnPiece(get(game, sq))

(***************************************************************************)
(* C29: a move that makeMove accepts changes the position, currentTurn and *)
(* possibly gameOver, and leaves both players' names, colours and timeLeft *)
(* as they were (nothing is added to or given back on a clock); a move     *)
(* that makeMove refuses changes nothing.                                  *)
(***************************************************************************)
AcceptedFrame ==
    /\ gameState'.currentTurn # gameState.currentTurn
    /\ gameState'.playerA = gameState.playerA
    /\ gameState'.playerB = gameState.playerB
    /\ UNCHANGED <<screen, selectedTimer, stored, isFlipped, selectedSquare, validMoves>>

RefusedFrame ==
    UNCHANGED <<game, gameState, gameOver, interval, screen, selectedTimer,
                stored, isFlipped, selectedSquare, validMoves>>

C29_MoveFrame ==
    /\ [](Mounted =>
            \A f \in Squares, t \in Squares :
                ~makeMoveOk(f, t) => ~ENABLED (onPieceDrop(f, t) /\ ~RefusedFrame))
    /\ [][(Mounted /\ Mounted' /\ game' # game) => AcceptedFrame]_vars

\* two moves were made and a third was refused or not tried: the players
\* are those of the stored record but for the time the clock has taken
C29_Witness ==
    /\ InProgress
    /\ game.board # StartBoard
    /\ gameState.currentTurn = "white"
    /\ \A p \in {"playerA", "playerB"} :
          /\ gameState[p].name = stored[p].name
          /\ gameState[p].color = stored[p].color
          /\ gameState[p].timeLeft = stored[p].timeLeft - 1
    /\ \E f \in Squares, t \in Squares : ~makeMoveOk(f, t)


(***************************************************************************)
(* C30: in every reachable state validMoves is empty when no square is     *)
(* selected, and while the match is in progress a selected square holds a  *)
(* piece of the side to move in the current position; so every click that  *)
(* is taken as a move hands makeMove a piece of the side to move.          *)
(***************************************************************************)
C30_SelectionOwnPiece ==
    /\ selectedSquare = NoSquare => validMoves = << >>
    /\ (InProgress /\ selectedSquare # NoSquare) =>
          /\ get(game, selectedSquare) # Empty
          /\ get(game, selectedSquare).color = game.turn
    /\ \A sq \in Squares :
          (Mounted /\ canMove /\ MoveClick(sq)) =>
              get(game, selectedSquare).color = game.turn

\* Black, to move after White's move and a second off the clock, has
\* selected a piece that can move
C30_Witness ==
    /\ InProgress
    /\ game.turn = "b"
    /\ game.board # StartBoard
    /\ selectedSquare # NoSquare
    /\ get(game, selectedSquare).color = "b"
    /\ \E sq \in Squares : MoveClick(sq)
    /\ ToMove.timeLeft < stored[ToMoveKey].timeLeft


(***************************************************************************)
(* C31: a move that brings about the third occurrence of a position (same  *)
(* placement and side to move; one-rank chess has neither castling nor en  *)
(* passant) in a match ends the match with a GameOver of kind draw.  The   *)
(* position followed is king and pawn against king with Black to move,     *)
(* which the kings can leave and come back to.                             *)
(***************************************************************************)
RepeatedPosition ==
    [ board |-> << Piece("b", "k"), Empty, Empty, Piece("w", "k"), Empty,
                   Piece("w", "p"), Empty >>,
      turn |-> "b" ]

AtRepeated == Mounted /\ PositionKey(game) = RepeatedPosition
AwayFromRepeated == Mounted /\ PositionKey(game) # RepeatedPosition

C31_ThirdOccurrenceDraws ==
    [](AtRepeated =>
        [](AwayFromRepeated =>
            [](AtRepeated =>
                [](AwayFromRepeated =>
                    [](AtRepeated => (gameOver # Null /\ gameOver.type = "draw"))))))


(***************************************************************************)
(* C32: on the match screen the canMove permission handed to the board is  *)
(* true exactly when no GameOver is set: its turn conjunct compares        *)
(* currentTurn with the colour of the player picked as the one whose       *)
(* colour is currentTurn.  The board's "Not your turn" rejection is        *)
(* therefore signalled only once the match is over.                        *)
(***************************************************************************)
C32_CanMoveUntilGameOver ==
    /\ Mounted => (canMove <=> gameOver = Null)
    /\ toast = "Not your turn" => (Mounted /\ gameOver # Null)

\* a square was clicked after a checkmate
C32_Witness ==
    /\ Mounted
    /\ gameOver # Null
    /\ gameOver.type = "checkmate"
    /\ ~canMove
    /\ toast = "Not your turn"


(***************************************************************************)
(* C33: the game-over modal is headed "Draw!" only for a GameOver without  *)
(* a winner; a GameOver that names a winner (checkmate, timeout,           *)
(* resignation) is never shown under that headline.                        *)
(***************************************************************************)
C33_DrawHeadlineHasNoWinner ==
    (Mounted /\ gameOver # Null /\ Headline(gameOver) = "Draw!") =>
        gameOver.winner = Undefined


\* the positions of the board, and the names of its squares with the file in
\* either letter case
BoardPositions == { Position(Num(x), Num(y)) : x \in 0..7, y \in 0..7 }
FileLetters == { "a", "b", "c", "d", "e", "f", "g", "h" }
UpperFileLetters == { "A", "B", "C", "D", "E", "F", "G", "H" }
RankDigits == { "1", "2", "3", "4", "5", "6", "7", "8" }
SquareNames ==
    { JsString(<< f, r >>) : f \in FileLetters \cup UpperFileLetters, r \in RankDigits }

LowerFile(f) ==
    CASE f = "A" -> "a" [] f = "B" -> "b" [] f = "C" -> "c" [] f = "D" -> "d"
      [] f = "E" -> "e" [] f = "F" -> "f" [] f = "G" -> "g" [] f = "H" -> "h"
      [] OTHER -> f

(***************************************************************************)
(* C34: algebraicToPosition and positionToAlgebraic are inverse on the     *)
(* board.  A position with integer x and y in 0..7 is converted to a name  *)
(* and the name back to the same position; a two-character square name a1  *)
(* to h8, file in either case, is converted to a position and the position *)
(* back to the name in lower case; every other string is converted to      *)
(* null.                                                                   *)
(***************************************************************************)
C34_ConversionsInverse ==
    /\ (Called("positionToAlgebraic") /\ validator.arg \in BoardPositions) =>
          /\ validator.result # Null
          /\ "back" \in DOMAIN validator => validator.back = validator.arg
    /\ (Called("algebraicToPosition") /\ validator.arg \in SquareNames) =>
          /\ validator.result # Null
          /\ "back" \in DOMAIN validator =>
                validator.back = JsString(<< LowerFile(validator.arg.str[1]),
                                             validator.arg.str[2] >>)
    /\ ( /\ Called("algebraicToPosition")
         /\ "str" \in DOMAIN validator.arg
         /\ validator.arg \notin SquareNames ) =>
          validator.result = Null

\* H8 was converted to the corner position and back to h8
C34_Witness ==
    /\ Called("algebraicToPosition")
    /\ validator.arg = JsString(<< "H", "8" >>)
    /\ validator.result = Position(Num(7), Num(7))
    /\ "back" \in DOMAIN validator
    /\ validator.back = JsString(<< "h", "8" >>)

(***************************************************************************)
(* C35: validatePiecePositions returns true exactly when its argument is   *)
(* an array that is not empty and holds only positions with integer x and  *)
(* y in 0..7; the empty array, a value that is no array and an array with  *)
(* one position off the board give false.                                  *)
(***************************************************************************)
C35_ValidatePiecePositions ==
    Called("validatePiecePositions") =>
        ( validator.result <=>
            /\ "items" \in DOMAIN validator.arg
            /\ validator.arg.items # << >>
            /\ \A i \in DOMAIN validator.arg.items :
                  validator.arg.items[i] \in BoardPositions )

\* three positions of the board were found valid
C35_Witness ==
    /\ Called("validatePiecePositions")
    /\ validator.arg = JsArray(<< Position(Num(0), Num(0)), Position(Num(7), Num(7)),
                                  Position(Num(3), Num(4)) >>)
    /\ validator.result


(***************************************************************************)
(* C36: validMoves holds no square more than once, a pawn about to promote *)
(* included, so the count the caption shows (validMoves.length) is the     *)
(* number of distinct legal destinations of the selected piece.            *)
(***************************************************************************)
C36_ValidMovesDistinct ==
    (Mounted /\ selectedSquare # NoSquare) =>
        /\ \A i \in DOMAIN validMoves, j \in DOMAIN validMoves :
              validMoves[i] = validMoves[j] => i = j
        /\ Len(validMoves) = Cardinality(LegalDestinations(game, selectedSquare))

====
